---- MODULE Spec2Model ----
(***************************************************************************)
(* A model of PaddingOracleAttack (src/poa.py): Bleichenbacher's attack on *)
(* RSA PKCS#1 v1.5 driven by a padding oracle.                             *)
(*                                                                         *)
(* The attack object is a sequential program.  Its state is the fields set *)
(* by __init__ (k, n, b, y0, B, B2, B3), the locals of run_attack (s1,     *)
(* newM, elem), the locals of the search loops (start_value, r, si) and    *)
(* the program position pc.  The environment is the padding oracle: it     *)
(* holds the private exponent d, and m0 is the plaintext hidden in y0.     *)
(* Every oracle query is one step, so every multiplier that is tried is a  *)
(* state of the model.                                                     *)
(***************************************************************************)
EXTENDS Integers, Sequences, FiniteSets, TLC

VARIABLES
    k,            \* self.k: size of the RSA key in bits
    n,            \* self.n: the modulus
    b,            \* self.b: the public exponent
    B,            \* self.B = 2**(k-16)
    B2,           \* self.B2 = 2*B
    B3,           \* self.B3 = 3*B
    y0,           \* self.y0: a str (the raw bytes) until run_attack rebinds
                  \* it to a long; [type, str, long] holds the one or the other
    oracle,       \* environment: how padding_oracle answers
    d,            \* environment: the private exponent the oracle decrypts with
    m0,           \* environment: the plaintext hidden in y0
    pc,           \* position in run_attack
    s1,           \* run_attack / _search_s1: the current multiplier
    start_value,  \* _search_s1: the start_value of the running search
    newM,         \* run_attack: the interval set M
    elem,         \* run_attack: the interval popped from newM
    r,            \* _just_one_interval: r
    si,           \* _just_one_interval: the next si of the for loop
    last,         \* history: the last oracle query and its outcome
    result        \* the string run_attack returned

vars == <<k, n, b, B, B2, B3, y0, oracle, d, m0, pc, s1, start_value, newM,
          elem, r, si, last, result>>

params == <<k, n, b, B, B2, B3>>
env == <<oracle, d, m0>>

(***************************************************************************)
(* Bounds of the model.                                                    *)
(***************************************************************************)
\* Multipliers are explored up to MaxWrap * n.
MaxWrap == 3

(***************************************************************************)
(* Keys the attack is run on.  ValidKeys are RSA keys whose modulus has    *)
(* exactly k bits.  SmallKeys have a modulus far shorter than k bits: the  *)
(* constructor accepts them, and only with them does an interval of        *)
(* [B2, B3-1] hold enough integers for several intervals to appear.        *)
(***************************************************************************)
ValidKeys ==
    { [k |-> 16, n |-> 32881, b |-> 3, d |-> 2167],
      [k |-> 17, n |-> 66511, b |-> 3, d |-> 10999],
      [k |-> 18, n |-> 136061, b |-> 5, d |-> 27065] }

SmallKeys ==
    { [k |-> 18, n |-> 33, b |-> 3, d |-> 7],
      [k |-> 18, n |-> 57, b |-> 5, d |-> 11],
      [k |-> 19, n |-> 39, b |-> 5, d |-> 5],
      [k |-> 18, n |-> 33, b |-> 1, d |-> 1] }

\* An undersized modulus for k = 21, where the padded range 64..95 is wide
\* enough for a narrowing to leave intervals that are not points.
WideKeys ==
    { [k |-> 21, n |-> 143, b |-> 7, d |-> 43] }

(***************************************************************************)
(* Arithmetic.                                                             *)
(***************************************************************************)
\* 2**e
RECURSIVE Pow2(_)
Pow2(e) == IF e = 0 THEN 1 ELSE 2 * Pow2(e - 1)

\* mutant: the correction term is forgotten
CeilAsFloor(x, y) == x \div y

\* x/y + (x%y != 0), Python 2 integer division (floor)
_ceil(x, y) == (x \div y) + (IF x % y # 0 THEN 1 ELSE 0)

\* mutant: the quotient is rounded up
FloorAsCeil(x, y) == _ceil(x, y)

\* x//y
_floor(x, y) == x \div y

\* mutant: the lower bound is not clamped to the interval
TakeSecond(x, y) == y

max(x, y) == IF x >= y THEN x ELSE y
min(x, y) == IF x <= y THEN x ELSE y

\* (x * y) % m on arbitrary-precision integers, for 0 <= x, y < m < 2^20:
\* y is split in two 10-bit halves so that no product exceeds 2^31.
MulMod(x, y, m) == ((((x * (y \div 1024)) % m) * 1024) + x * (y % 1024)) % m

\* pow(x, e, m) by repeated squaring; h is bound to the value of the
\* recursive call, so that it is computed once
RECURSIVE ModExp(_, _, _)
ModExp(x, e, m) ==
    IF e = 0 THEN 1 % m
    ELSE CHOOSE v \in { IF e % 2 = 1
                           THEN MulMod(MulMod(h, h, m), x % m, m)
                           ELSE MulMod(h, h, m) :
                        h \in {ModExp(x, e \div 2, m)} } : TRUE

(***************************************************************************)
(* Encodings.                                                              *)
(***************************************************************************)
HexChars == <<"0", "1", "2", "3", "4", "5", "6", "7",
              "8", "9", "a", "b", "c", "d", "e", "f">>

HexVal(c) == CHOOSE v \in 0..15 : HexChars[v + 1] = c

\* '%x' % v
RECURSIVE HexDigits(_)
HexDigits(v) ==
    IF v < 16 THEN <<HexChars[v + 1]>>
    ELSE HexDigits(v \div 16) \o <<HexChars[(v % 16) + 1]>>

\* long(h, 16): the digits from the first non-zero one on, most significant
\* first (leading zeros add nothing to the value)
RECURSIVE Horner(_, _)
Horner(h, acc) ==
    IF h = <<>> THEN acc ELSE Horner(Tail(h), 16 * acc + HexVal(Head(h)))

long16(h) ==
    LET nz == { i \in 1..Len(h) : h[i] # "0" }
    IN  IF nz = {} THEN 0
        ELSE Horner(SubSeq(h, CHOOSE i \in nz : \A j \in nz : i <= j, Len(h)), 0)

\* binascii.hexlify(bin_data): two hexadecimal digits per byte
RECURSIVE hexlify(_)
hexlify(bin_data) ==
    IF bin_data = <<>> THEN <<>>
    ELSE <<HexChars[(Head(bin_data) \div 16) + 1],
           HexChars[(Head(bin_data) % 16) + 1]>> \o hexlify(Tail(bin_data))

_bin2long(bin_data) == long16(hexlify(bin_data))

\* the width of '%0256x'
HexWidth == 256

\* '%0256x' % v: at least HexWidth digits, padded with zeros on the left
Format(v) ==
    LET ds == HexDigits(v)
    IN  IF Len(ds) >= HexWidth THEN ds
        ELSE [i \in 1..(HexWidth - Len(ds)) |-> "0"] \o ds

\* The caller's encoding of a ciphertext: len bytes, big-endian.
RECURSIVE ToBytes(_, _)
ToBytes(v, len) ==
    IF len = 0 THEN <<>> ELSE ToBytes(v \div 256, len - 1) \o <<v % 256>>

(***************************************************************************)
(* The RSA primitive and the oracle.                                       *)
(***************************************************************************)
\* rsa.core.encrypt_int(plaintext, self.b, self.n)
_encrypt_int(plaintext) == ModExp(plaintext, b, n)

\* (self._encrypt_int(s) * y0) % self.n: the trial ciphertext of multiplier s
Trial(s) == MulMod(_encrypt_int(s), y0.long, n)

\* A decrypted value is validly padded when it lies in [B2, B3-1].
Conforming(m) == 2 * Pow2(k - 16) <= m /\ m <= 3 * Pow2(k - 16) - 1

\* The answers padding_oracle may give to ciphertext y.  A truthful oracle
\* decrypts y and reports whether the plaintext is validly padded; an
\* arbitrary oracle may answer anything; a faulty oracle answers truthfully
\* when it answers.
padding_oracle(y) ==
    IF oracle \in {"truthful", "faulty"}
    THEN {Conforming(ModExp(y, d, n))}
    ELSE BOOLEAN

\* Whether the call padding_oracle(y) may raise instead of returning: only a
\* faulty oracle (a connection that can break at any query) does.
Raises(y) == IF oracle = "faulty" THEN BOOLEAN ELSE {FALSE}

\* mutant: the exception is caught where it is raised and the loop goes on
Caught(at) == at

\* Where control goes when the call of padding_oracle raises at position at:
\* neither loop has a try statement, nor has run_attack, so the exception
\* leaves run_attack.
Uncaught(at) == "Fault"

\* Whether multiplier s is accepted against the hidden value m: (m*s) mod n
\* is validly padded.
Accepted(m, s) == Conforming(MulMod(m % n, s % n, n))

(***************************************************************************)
(* The interval computations.                                              *)
(***************************************************************************)
\* mutant: range(lo, hi) in place of range(lo, hi + 1)
CalculateShort(s) ==
    LET cand == { <<max(B2, _ceil(B2 + rr * n, s)),
                    min(B3 - 1, _floor(B3 - 1 + rr * n, s))>> :
                  rr \in _ceil(B2 * s - B3 + 1, n) ..
                         (_floor((B3 - 1) * s - B2, n) - 1) }
    IN  { iv \in cand : iv[1] <= iv[2] }

\* mutant: the test newa <= newb is dropped
CalculateUnfiltered(s) ==
    { <<max(B2, _ceil(B2 + rr * n, s)),
        min(B3 - 1, _floor(B3 - 1 + rr * n, s))>> :
      rr \in _ceil(B2 * s - B3 + 1, n) .. _floor((B3 - 1) * s - B2, n) }

\* _calculate_intervals(s1), poa.py:66-75
_calculate_intervals(s) ==
    LET cand == { <<max(B2, _ceil(B2 + rr * n, s)),
                    min(B3 - 1, _floor(B3 - 1 + rr * n, s))>> :
                  rr \in _ceil(B2 * s - B3 + 1, n) ..
                         _floor((B3 - 1) * s - B2, n) }
    IN  { iv \in cand : iv[1] <= iv[2] }

\* mutant: range(lo, hi) in place of range(lo, hi + 1)
NarrowOneShort(s, iv) ==
    LET cand == { <<max(iv[1], _ceil(B2 + rr * n, s)),
                    min(iv[2], _floor(B3 - 1 + rr * n, s))>> :
                  rr \in _ceil(iv[1] * s - B3 + 1, n) ..
                         (_floor(iv[2] * s - B2, n) - 1) }
    IN  { nv \in cand : nv[1] <= nv[2] }

\* mutant: newa < newb in place of newa <= newb
NarrowOneStrict(s, iv) ==
    LET cand == { <<max(iv[1], _ceil(B2 + rr * n, s)),
                    min(iv[2], _floor(B3 - 1 + rr * n, s))>> :
                  rr \in _ceil(iv[1] * s - B3 + 1, n) ..
                         _floor(iv[2] * s - B2, n) }
    IN  { nv \in cand : nv[1] < nv[2] }

\* the inner loop of _narrow_intervals for one interval (a, b), poa.py:83-89
NarrowOne(s, iv) ==
    LET cand == { <<max(iv[1], _ceil(B2 + rr * n, s)),
                    min(iv[2], _floor(B3 - 1 + rr * n, s))>> :
                  rr \in _ceil(iv[1] * s - B3 + 1, n) ..
                         _floor(iv[2] * s - B2, n) }
    IN  { nv \in cand : nv[1] <= nv[2] }

\* mutant: newM is reset for every interval of M, so that only the results
\* of one interval (the last of the iteration, here the greatest) are kept
NarrowLastOnly(s, M) ==
    IF M = {} THEN {}
    ELSE NarrowOne(s, CHOOSE iv \in M : \A other \in M : other[1] <= iv[1])

\* _narrow_intervals(si, M), poa.py:80-90
_narrow_intervals(s, M) == UNION { NarrowOne(s, iv) : iv \in M }

\* mutant: the factor 2 is forgotten
StartRUndoubled(s, iv) == _ceil(iv[2] * s - B2, n)

\* mutant: r starts at 0 whatever the previous multiplier was
StartRFromZero(s, iv) == _ceil(0 * (iv[2] * s - B2), n)

\* _just_one_interval: the starting value for r, poa.py:96
StartR(s, iv) == _ceil((iv[2] * s - B2) * 2, n)

\* _just_one_interval: the bounds of range(...) for r, poa.py:99
RangeLo(rr, iv) == _ceil(B2 + rr * n, iv[2])
RangeHi(rr, iv) == _floor(B3 - 1 + rr * n, iv[1])

\* mutant: the candidate is not advanced
SameCandidate(s) == s

\* mutant: every other candidate is skipped
SkipCandidate(s) == s + 2

\* s1 += 1, poa.py:60
NextCandidate(s) == s + 1

\* mutant: 1 in place of self.n, so that the blind search starts at 1
StartAtOne == _ceil(1, B3)

\* self._ceil(self.n, self.B3), poa.py:113
S1StartValue == _ceil(n, B3)

(***************************************************************************)
(* Initial states: the object after __init__, before run_attack.           *)
(***************************************************************************)
\* PaddingOracleAttack(k, n, b, y0, padding_oracle), poa.py:27-34, for a key,
\* the ciphertext of plaintext m and an oracle of kind orc
Constructed(key, m, orc) ==
    /\ k = key.k
    /\ n = key.n
    /\ b = key.b
    /\ B = Pow2(key.k - 16)
    /\ B2 = 2 * Pow2(key.k - 16)
    /\ B3 = 3 * Pow2(key.k - 16)
    /\ y0 = [type |-> "str",
             str |-> ToBytes(ModExp(m, key.b, key.n), _ceil(key.k, 8)),
             long |-> 0]
    /\ oracle = orc
    /\ d = key.d
    /\ m0 = m
    /\ start_value = 0
    /\ elem = <<0, 0>>
    /\ r = 0
    /\ si = 0
    /\ last = [s |-> 0, y |-> 0, ans |-> FALSE, raised |-> FALSE]
    /\ result = <<>>

\* The validly padded plaintexts of a key: B2 .. B3-1
Padded(key) == (2 * Pow2(key.k - 16)) .. (3 * Pow2(key.k - 16) - 1)

\* run_attack has not been called yet
NotStarted == pc = "init" /\ s1 = 0 /\ newM = {}

\* The attack against a truthful oracle.
Init ==
    \E key \in ValidKeys \cup SmallKeys :
        \E m \in Padded(key) : Constructed(key, m, "truthful") /\ NotStarted

\* The attack on the wide padded range, against a truthful oracle.
WideInit ==
    \E key \in WideKeys :
        \E m \in Padded(key) : Constructed(key, m, "truthful") /\ NotStarted

\* The attack against an oracle whose queries may raise.
FaultInit ==
    \E key \in ValidKeys \cup SmallKeys :
        \E m \in Padded(key) : Constructed(key, m, "faulty") /\ NotStarted

\* The attack against an oracle that answers arbitrarily.
AdvInit ==
    \E key \in SmallKeys :
        \E m \in Padded(key) : Constructed(key, m, "arbitrary") /\ NotStarted

(***************************************************************************)
(* run_attack, one step per statement that the claims observe and one      *)
(* step per oracle query.                                                  *)
(***************************************************************************)
\* The largest multiplier the model explores.
Cap == MaxWrap * n

\* poa.py:112-114: decode y0 and enter the blind search
RunAttack ==
    /\ pc = "init"
    /\ y0' = [type |-> "long", str |-> <<>>, long |-> _bin2long(y0.str)]
    /\ start_value' = S1StartValue
    /\ s1' = S1StartValue
    /\ pc' = "blind_search"
    /\ UNCHANGED <<params, env, newM, elem, r, si, last, result>>

\* One iteration of the loop of _search_s1 (poa.py:56-61); ret is where
\* the caller continues once the oracle accepts.
SearchS1(ret) ==
    \E raised \in Raises(Trial(s1)), ans \in padding_oracle(Trial(s1)) :
        /\ IF raised
           THEN /\ last' = [s |-> s1, y |-> Trial(s1), ans |-> FALSE,
                            raised |-> TRUE]
                /\ pc' = Uncaught(pc)
                /\ s1' = s1
           ELSE /\ last' = [s |-> s1, y |-> Trial(s1), ans |-> ans,
                            raised |-> FALSE]
                /\ IF ans
                   THEN /\ pc' = ret
                        /\ s1' = s1
                   ELSE /\ s1 < Cap
                        /\ pc' = pc
                        /\ s1' = NextCandidate(s1)
        /\ UNCHANGED <<params, env, y0, start_value, newM, elem, r, si, result>>

\* poa.py:114
BlindSearch == pc = "blind_search" /\ SearchS1("calc")

\* poa.py:115
CalculateIntervals ==
    /\ pc = "calc"
    /\ newM' = _calculate_intervals(s1)
    /\ pc' = "multi_test"
    /\ UNCHANGED <<params, env, y0, s1, start_value, elem, r, si, last, result>>

\* poa.py:116: while len(newM) > 1
MultiTest ==
    /\ pc = "multi_test"
    /\ pc' = IF Cardinality(newM) > 1 THEN "multi_narrow" ELSE "pop"
    /\ UNCHANGED <<params, env, y0, s1, start_value, newM, elem, r, si, last,
                   result>>

\* poa.py:117 and the call of line 118
MultiNarrow ==
    /\ pc = "multi_narrow"
    /\ s1 < Cap
    /\ newM' = _narrow_intervals(s1, newM)
    /\ start_value' = s1 + 1
    /\ s1' = s1 + 1
    /\ pc' = "multi_search"
    /\ UNCHANGED <<params, env, y0, elem, r, si, last, result>>

\* poa.py:118
MultiSearch == pc = "multi_search" /\ SearchS1("multi_test")

\* The call self._just_one_interval(s, e[0], e[1]): r gets its starting
\* value and the for loop its first si.
EnterJustOneInterval(s, e) ==
    /\ r' = StartR(s, e)
    /\ si' = RangeLo(StartR(s, e), e)
    /\ pc' = "single_search"

\* poa.py:119-120 and the call of line 122.  set.pop() removes an arbitrary
\* element and raises KeyError on an empty set.
Pop ==
    /\ pc = "pop"
    /\ IF newM = {}
       THEN /\ pc' = "KeyError"
            /\ UNCHANGED <<elem, r, si>>
       ELSE \E e \in newM :
                /\ elem' = e
                /\ EnterJustOneInterval(s1, e)
    /\ UNCHANGED <<params, env, y0, s1, start_value, newM, last, result>>

\* One iteration of the for loop of _just_one_interval (poa.py:99-103)
JustOneIntervalTrial ==
    /\ pc = "single_search"
    /\ si <= RangeHi(r, elem)
    /\ \E raised \in Raises(Trial(si)), ans \in padding_oracle(Trial(si)) :
        IF raised
        THEN /\ last' = [s |-> si, y |-> Trial(si), ans |-> FALSE,
                         raised |-> TRUE]
             /\ pc' = Uncaught(pc)
             /\ UNCHANGED <<s1, si>>
        ELSE /\ last' = [s |-> si, y |-> Trial(si), ans |-> ans,
                         raised |-> FALSE]
             /\ IF ans
                THEN /\ s1' = si
                     /\ si' = si
                     /\ pc' = "single_narrow"
                ELSE /\ si < Cap
                     /\ s1' = s1
                     /\ si' = si + 1
                     /\ pc' = pc
    /\ UNCHANGED <<params, env, y0, start_value, newM, elem, r, result>>

\* The range of r is exhausted: r += 1 (poa.py:104-105) and the for loop
\* starts over.
JustOneIntervalNextR ==
    /\ pc = "single_search"
    /\ si > RangeHi(r, elem)
    /\ RangeLo(r + 1, elem) <= Cap
    /\ r' = r + 1
    /\ si' = RangeLo(r + 1, elem)
    /\ UNCHANGED <<params, env, y0, pc, s1, start_value, newM, elem, last,
                   result>>

\* mutant: the accepted multiplier is folded into the target as well
SingleNarrowRescaling ==
    /\ pc = "single_narrow"
    /\ newM' = _narrow_intervals(s1, newM)
    /\ y0' = [y0 EXCEPT !.long = Trial(s1)]
    /\ pc' = "single_pop"
    /\ UNCHANGED <<params, env, s1, start_value, elem, r, si, last, result>>

\* poa.py:123
SingleNarrow ==
    /\ pc = "single_narrow"
    /\ newM' = _narrow_intervals(s1, newM)
    /\ pc' = "single_pop"
    /\ UNCHANGED <<params, env, y0, s1, start_value, elem, r, si, last, result>>

\* poa.py:124-127, and the call of line 122 when the loop goes on
SinglePop ==
    /\ pc = "single_pop"
    /\ IF newM = {}
       THEN /\ pc' = "KeyError"
            /\ UNCHANGED <<elem, r, si, result>>
       ELSE \E e \in newM :
                /\ elem' = e
                /\ IF e[1] = e[2]
                   THEN /\ result' = Format(e[1])
                        /\ pc' = "done"
                        /\ UNCHANGED <<r, si>>
                   ELSE /\ EnterJustOneInterval(s1, e)
                        /\ UNCHANGED result
    /\ UNCHANGED <<params, env, y0, s1, start_value, newM, last>>

Next ==
    \/ RunAttack
    \/ BlindSearch
    \/ CalculateIntervals
    \/ MultiTest
    \/ MultiNarrow
    \/ MultiSearch
    \/ Pop
    \/ JustOneIntervalTrial
    \/ JustOneIntervalNextR
    \/ SingleNarrow
    \/ SinglePop

Spec == Init /\ [][Next]_vars

\* run_attack is a sequential program: a step that can be taken is taken.
LiveSpec == Init /\ [][Next]_vars /\ WF_vars(Next)

AdvSpec == AdvInit /\ [][Next]_vars

FaultSpec == FaultInit /\ [][Next]_vars

WideSpec == WideInit /\ [][Next]_vars

(***************************************************************************)
(* The interval computations on their own: _calculate_intervals and        *)
(* _narrow_intervals applied to any multiplier up to Cap, starting from    *)
(* the whole range, from the point interval of m0, or from the result of   *)
(* an earlier application.                                                 *)
(***************************************************************************)
UnitInit ==
    \E key \in SmallKeys :
        \E m \in Padded(key) :
            /\ Constructed(key, m, "truthful")
            /\ pc = "unit"
            /\ s1 = 0
            /\ newM \in { {<<m, m>>}, {<<2 * Pow2(key.k - 16), 3 * Pow2(key.k - 16) - 1>>} }

UnitCalculate ==
    /\ pc = "unit"
    /\ \E s \in 1..Cap :
        /\ s1' = s
        /\ newM' = _calculate_intervals(s)
    /\ pc' = "unit_calculated"
    /\ UNCHANGED <<params, env, y0, start_value, elem, r, si, last, result>>

UnitNarrow ==
    /\ pc \in {"unit", "unit_calculated", "unit_narrowed"}
    /\ \E s \in 1..Cap :
        /\ s1' = s
        /\ newM' = _narrow_intervals(s, newM)
    /\ pc' = "unit_narrowed"
    /\ UNCHANGED <<params, env, y0, start_value, elem, r, si, last, result>>

UnitNext == UnitCalculate \/ UnitNarrow

UnitSpec == UnitInit /\ [][UnitNext]_vars

\* The interval computations on the keys with k = 18, whose interval sets
\* are small enough for every way of splitting them in two to be compared.
SplitInit == UnitInit /\ k = 18

SplitSpec == SplitInit /\ [][UnitNext]_vars

\* The run against an oracle that answers arbitrarily, together with the
\* interval computations on their own.
IntervalSpec == (AdvInit \/ UnitInit) /\ [][Next \/ UnitNext]_vars

(***************************************************************************)
(* Terms of the claims.                                                    *)
(***************************************************************************)
\* The key parameters are consistent: n has k bits and b > 1.
ValidParams == n > Pow2(k - 1) /\ b > 1

\* Interval set M has an interval that covers value m.
Covers(M, m) == \E iv \in M : iv[1] <= m /\ m <= iv[2]

\* The Interval Calculator has produced M.
HasM == pc \notin {"init", "blind_search", "calc"}

MCoversPlaintext == HasM => Covers(newM, m0)

\* M was narrowed in the multi-interval loop and again in the single-interval
\* loop, and covers m0
NarrowedInBothLoops ==
    pc = "single_pop" /\ start_value > S1StartValue /\ Covers(newM, m0)

(***************************************************************************)
(* C3.  For every padded m0 and every multiplier s1 >= 1 accepted against  *)
(* m0, _calculate_intervals(s1) has an interval that covers m0.            *)
(***************************************************************************)
CalculatorSound ==
    pc = "unit_calculated" /\ Accepted(m0, s1) => Covers(newM, m0)

\* the calculator was applied to an accepted multiplier above 1 and produced
\* several intervals
CalculatedSeveral ==
    pc = "unit_calculated" /\ Accepted(m0, s1) /\ s1 > 1
        /\ Cardinality(newM) > 1 /\ Covers(newM, m0)

SearchReturnsSmallest ==
    /\ pc \in {"blind_search", "multi_search"} =>
           /\ s1 >= start_value
           /\ s1 > start_value => last.s = s1 - 1 /\ ~last.ans
    /\ pc \in {"calc", "multi_test"} =>
           /\ s1 >= start_value
           /\ last.s = s1 /\ last.y = Trial(s1) /\ last.ans
           /\ Accepted(m0, s1)
           /\ \A t \in start_value..(s1 - 1) : ~Accepted(m0, t)

\* a search of the multi-interval loop returned after it rejected at least two
\* multipliers
SearchReturnedThird ==
    pc = "multi_test" /\ start_value > S1StartValue /\ s1 > start_value + 1
        /\ last.s = s1 /\ last.ans

(***************************************************************************)
(* C6.  The string run_attack returns has ceil(k/4) hexadecimal digits.    *)
(***************************************************************************)
WidthFromKeySize == pc = "done" => Len(result) = _ceil(k, 4)

(***************************************************************************)
(* C7.  Narrowing {(m0, m0)} with a multiplier accepted against m0 returns *)
(* {(m0, m0)}.                                                             *)
(***************************************************************************)
PointIsFixed ==
    [][pc' = "unit_narrowed" /\ newM = {<<m0, m0>>} /\ Accepted(m0, s1')
           => newM' = {<<m0, m0>>}]_vars

\* the point interval of m0 after a narrowing with an accepted multiplier
\* above 1
PointNarrowed ==
    pc = "unit_narrowed" /\ newM = {<<m0, m0>>} /\ Accepted(m0, s1) /\ s1 > 1

EmptySetIsFatal ==
    [][HasM /\ newM = {} => last' = last /\ newM' = {} /\ pc' # "done"]_vars

(***************************************************************************)
(* C10.  For inconsistent key parameters no oracle query is ever issued.   *)
(***************************************************************************)
InvalidParamsNeverQuery == ~ValidParams => last.s = 0

(***************************************************************************)
(* C11.  When a call of padding_oracle raises, in the blind search, in a   *)
(* search of the multi-interval loop or in _just_one_interval, run_attack  *)
(* ends with that exception: the step that raises changes neither the      *)
(* multiplier nor M, and after it no step queries, narrows or returns.     *)
(***************************************************************************)
FaultAborts ==
    /\ [](last.raised => pc = "Fault" /\ result = <<>>)
    /\ [][/\ last'.raised =>
                 /\ ~last.raised
                 /\ pc \in {"blind_search", "multi_search", "single_search"}
                 /\ UNCHANGED <<s1, si, r, newM, elem, start_value, result>>
           /\ pc # "Fault"]_vars

\* a query of _just_one_interval raised, past the multiplier the blind search
\* returned, while M held one interval
FaultInRefiner ==
    pc = "Fault" /\ last.raised /\ last.s = si /\ last.s > s1
        /\ s1 > start_value /\ Cardinality(newM) = 1

(***************************************************************************)
(* C12.  Every interval (a, b) of M has B2 <= a <= b <= B3-1: in every     *)
(* state of the run whatever the oracle answers, in the result of          *)
(* _calculate_intervals for any s1 >= 1, and after _narrow_intervals with  *)
(* any multiplier si >= 1.                                                 *)
(***************************************************************************)
IntervalsWithinPadded ==
    \A iv \in newM : B2 <= iv[1] /\ iv[1] <= iv[2] /\ iv[2] <= B3 - 1

\* the multi-interval loop has narrowed M and several intervals are left, one
\* of them with a lower bound above B2 and one with an upper bound below B3-1
SeveralWithinPadded ==
    /\ pc = "multi_search"
    /\ Cardinality(newM) > 1
    /\ \E iv \in newM : iv[1] > B2
    /\ \E iv \in newM : iv[2] < B3 - 1
    /\ IntervalsWithinPadded

(***************************************************************************)
(* C13.  _just_one_interval runs only while M holds exactly one interval,  *)
(* the (a, b) passed to it: in the single-interval loop no narrowing       *)
(* leaves two or more intervals in M.                                      *)
(***************************************************************************)
RefinerHasOneInterval == pc = "single_search" => newM = {elem}

(***************************************************************************)
(* C14.  run_attack returns the numeral of m only when M = {(m, m)}: never *)
(* while M holds more than one interval or an interval with a < b.         *)
(***************************************************************************)
ReturnsOnlySinglePoint ==
    pc = "done" => newM = {<<long16(result), long16(result)>>}

(***************************************************************************)
(* C15.  _narrow_intervals processes every interval of M and accumulates   *)
(* all results: for every multiplier si and all interval sets M1, M2 whose *)
(* union is M, the narrowing of M is the union of the narrowing of M1 and  *)
(* the narrowing of M2, and so the union over the intervals of M of the    *)
(* narrowing of each one.                                                  *)
(***************************************************************************)
NarrowDistributes ==
    [][pc' = "unit_narrowed" =>
           LET narrowed == { <<M, _narrow_intervals(s1', M)>> :
                             M \in SUBSET newM }
           IN  /\ \A p1 \in narrowed : \A p2 \in narrowed :
                      p1[1] \cup p2[1] = newM => newM' = p1[2] \cup p2[2]
               /\ newM' = UNION { _narrow_intervals(s1', {iv}) :
                                  iv \in newM }]_vars

\* a narrowing has produced several intervals, each of them the narrowing of
\* itself alone, from a set of several intervals
NarrowedSeveral ==
    /\ pc = "unit_narrowed"
    /\ s1 > 1
    /\ Cardinality(newM) > 2
    /\ \A iv \in newM : _narrow_intervals(s1, {iv}) = {iv}
    /\ _narrow_intervals(s1, newM) = newM

(***************************************************************************)
(* C16.  The Interval Calculator is exact: for every s1 >= 1 and every m   *)
(* in [B2, B3-1], some interval of _calculate_intervals(s1) covers m if    *)
(* and only if (m * s1) mod n lies in [B2, B3-1].                          *)
(***************************************************************************)
CalculatorExact ==
    pc = "unit_calculated" =>
        \A m \in B2..(B3 - 1) : Covers(newM, m) <=> Accepted(m, s1)

\* the calculator was applied to a multiplier above 1 that is accepted
\* against some padded values and rejected against others, and its intervals
\* cover the former only
CalculatedExactly ==
    /\ pc = "unit_calculated"
    /\ s1 > 1
    /\ \E m \in B2..(B3 - 1) : Accepted(m, s1) /\ Covers(newM, m)
    /\ \E m \in B2..(B3 - 1) : ~Accepted(m, s1) /\ ~Covers(newM, m)
    /\ \E iv \in newM : iv[1] < iv[2]

(***************************************************************************)
(* C17.  _just_one_interval(s_prev, a, b) scans r upward by one from       *)
(* ceil(2*(b*s_prev - B2)/n) and, for each r, si upward over               *)
(* [ceil((B2 + r*n)/b), floor((B3-1 + r*n)/a)]; it returns the first si    *)
(* the oracle accepts: the returned si was accepted, lies in the range of  *)
(* its r, and every multiplier scanned before it was rejected.             *)
(***************************************************************************)
\* the first r and the range of r, as the claim states them
FirstR(s, iv) == _ceil(2 * (iv[2] * s - B2), n)
ScanLo(rr, iv) == _ceil(B2 + rr * n, iv[2])
ScanHi(rr, iv) == _floor(B3 - 1 + rr * n, iv[1])

RefinerReturnsFirst ==
    /\ [](pc = "single_search" =>
              /\ r >= FirstR(s1, elem)
              /\ si >= ScanLo(r, elem)
              /\ \A rr \in FirstR(s1, elem)..(r - 1) :
                     \A t \in ScanLo(rr, elem)..ScanHi(rr, elem) :
                         ~Accepted(m0, t)
              /\ \A t \in ScanLo(r, elem)..(si - 1) : ~Accepted(m0, t))
    /\ [][/\ (pc # "single_search" /\ pc' = "single_search") =>
                (r' = FirstR(s1, elem') /\ si' = ScanLo(r', elem'))
          /\ (pc = "single_search" /\ r' # r) =>
                /\ r' = r + 1 /\ si > ScanHi(r, elem)
                /\ si' = ScanLo(r + 1, elem) /\ s1' = s1 /\ elem' = elem
          /\ (pc = "single_search" /\ pc' = "single_narrow") =>
                /\ s1' = si /\ r' = r /\ elem' = elem
                /\ ScanLo(r, elem) <= si /\ si <= ScanHi(r, elem)
                /\ last' = [s |-> si, y |-> Trial(si), ans |-> TRUE,
                            raised |-> FALSE]
                /\ Accepted(m0, si)]_vars

\* the refiner has returned a multiplier that is not the first of its range,
\* for an interval that is not a point
RefinerReturnedLater ==
    /\ pc = "single_narrow"
    /\ elem[1] < elem[2]
    /\ last.s = s1 /\ last.ans
    /\ ScanLo(r, elem) < s1 /\ s1 <= ScanHi(r, elem)

(***************************************************************************)
(* C18.  Narrowing only shrinks: in every step of the run, whatever the    *)
(* oracle answered, and for every multiplier si >= 1, each interval        *)
(* (a', b') of the narrowed M has a <= a' <= b' <= b for some (a, b) of    *)
(* the M before, so that the new M covers no integer the old M did not.    *)
(* Only the Interval Calculator sets M anew.                               *)
(***************************************************************************)
NarrowingShrinks ==
    [][pc # "calc" /\ pc' # "unit_calculated" =>
           /\ \A nv \in newM' : \E iv \in newM :
                  iv[1] <= nv[1] /\ nv[1] <= nv[2] /\ nv[2] <= iv[2]
           /\ \A m \in B2..(B3 - 1) : Covers(newM', m) => Covers(newM, m)]_vars

\* the narrowing of the single-interval loop has replaced the interval that
\* was refined by intervals strictly inside it
ShrunkInside ==
    /\ pc = "single_pop"
    /\ newM # {}
    /\ \A nv \in newM :
           /\ elem[1] <= nv[1] /\ nv[2] <= elem[2]
           /\ elem[1] < nv[1] \/ nv[2] < elem[2]

(***************************************************************************)
(* C19.  The current multiplier of the driver strictly increases: the      *)
(* blind search starts at ceil(n/B3), every search of the multi-interval   *)
(* loop starts at the previous multiplier plus one, and every multiplier   *)
(* the Single-Interval Refiner tries or returns is strictly greater than   *)
(* the multiplier passed to it; no step ever lowers the multiplier.        *)
(***************************************************************************)
MultiplierIncreases ==
    /\ [](pc \in {"blind_search", "multi_search"} => s1 >= start_value)
    /\ [](pc = "single_search" => si > s1)
    /\ [][/\ s1' >= s1
          /\ pc = "init" => s1' = _ceil(n, B3) /\ start_value' = s1'
          /\ pc = "multi_narrow" => s1' = s1 + 1 /\ start_value' = s1 + 1
          /\ pc = "single_search" /\ pc' = "single_narrow" => s1' > s1
          /\ pc \in {"blind_search", "multi_search"} /\ last'.ans =>
                 s1' = s1 /\ last'.s = s1]_vars

\* the refiner has returned a multiplier above the one the multi-interval
\* loop ended with, which was above the one the blind search returned
IncreasedInEveryPhase ==
    /\ pc = "single_narrow"
    /\ start_value > S1StartValue
    /\ last.s = s1 /\ last.ans
    /\ s1 > start_value + 1

(***************************************************************************)
(* C20.  The attack constants are immutable during the attack: no step     *)
(* changes k, n, b, B, B2 or B3, and y0 is decoded from the raw bytes      *)
(* once, when run_attack starts, and is not modified by any later step;    *)
(* only the attack state changes.                                          *)
(***************************************************************************)
\* the integer a sequence of bytes stands for, most significant byte first
RECURSIVE BytesValue(_)
BytesValue(bytes) ==
    IF bytes = <<>> THEN 0
    ELSE 256 * BytesValue(SubSeq(bytes, 1, Len(bytes) - 1)) + bytes[Len(bytes)]

ConstantsImmutable ==
    /\ [](B = Pow2(k - 16) /\ B2 = 2 * B /\ B3 = 3 * B)
    /\ [](IF pc = "init" THEN y0.type = "str" /\ Len(y0.str) = _ceil(k, 8)
                        ELSE y0.type = "long" /\ y0.long = ModExp(m0, b, n))
    /\ [][/\ UNCHANGED <<k, n, b, B, B2, B3>>
          /\ pc = "init" => y0'.long = BytesValue(y0.str)
          /\ pc # "init" => y0' = y0]_vars

\* run_attack has returned, after a search past its first candidate, with
\* the constants as constructed and y0 the integer of a ciphertext longer
\* than one byte
ConstantsKeptToDone ==
    /\ pc = "done"
    /\ last.s > S1StartValue
    /\ y0.type = "long" /\ y0.long = ModExp(m0, b, n) /\ y0.long > 255
    /\ B3 = 3 * Pow2(k - 16)

====
